---------------------------- MODULE Spec2Model ----------------------------
(***************************************************************************)
(* Model of scripts/fetch.py, the Claude Agent SDK documentation fetcher:  *)
(* URL discovery (llms.txt, sitemap, static fallback), fetch with retry,   *)
(* MDX cleaning and markdown validation, the manifest, cleanup of obsolete *)
(* files and the cross-check of SKILL.md against the mirrored files.       *)
(*                                                                         *)
(* Text is modelled as a sequence of tokens.  A token stands for a run of  *)
(* characters that the code never splits ("overview", ".md",               *)
(* "references/"); the characters the code looks at one by one ("/", "-",  *)
(* the backtick, " ", "\n", "#") are tokens of their own.  A page body is *)
(* sequence of lines, each line one of a fixed handful of line kinds.      *)
(***************************************************************************)
EXTENDS Integers, Sequences, FiniteSets, TLC

-----------------------------------------------------------------------------
(* String primitives of Python, on token sequences *)

Min(S) == CHOOSE x \in S : \A y \in S : x <= y

Max(S) == CHOOSE x \in S : \A y \in S : x >= y

Whitespace == {" ", "\n"}

\* the backtick character (a string of the module cannot hold one)
Backtick == "<backtick>"

\* s.startswith(p)
StartsWith(s, p) == Len(s) >= Len(p) /\ SubSeq(s, 1, Len(p)) = p

\* s.endswith(p)
EndsWith(s, p) == Len(s) >= Len(p) /\ SubSeq(s, Len(s) - Len(p) + 1, Len(s)) = p

\* s.find(p) + 1: the position of the first occurrence of p in s, 0 if none
Find(s, p) ==
    LET at == {i \in 1..(Len(s) - Len(p) + 1) : SubSeq(s, i, i + Len(p) - 1) = p}
    IN  IF at = {} THEN 0 ELSE Min(at)

\* p in s
Contains(s, p) == Find(s, p) # 0

\* s.lstrip(chars)
LStrip(s, chars) ==
    LET keep == {i \in 1..Len(s) : s[i] \notin chars}
    IN  IF keep = {} THEN <<>> ELSE SubSeq(s, Min(keep), Len(s))

\* s.rstrip(chars)
RStrip(s, chars) ==
    LET keep == {i \in 1..Len(s) : s[i] \notin chars}
    IN  IF keep = {} THEN <<>> ELSE SubSeq(s, 1, Max(keep))

\* s.strip(chars)
Strip(s, chars) == LStrip(RStrip(s, chars), chars)

\* s[:-n]
DropLast(s, n) == SubSeq(s, 1, Len(s) - n)

\* s.replace(a, b) for a single-token a
Replace(s, a, b) == [i \in 1..Len(s) |-> IF s[i] = a THEN b ELSE s[i]]

\* s.split(sep)[-1] for a single-token sep
LastPart(s, sep) ==
    LET at == {i \in 1..Len(s) : s[i] = sep}
    IN  IF at = {} THEN s ELSE SubSeq(s, Max(at) + 1, Len(s))

-----------------------------------------------------------------------------
(* Configuration *)

Https(host) == <<"https:", "//", host>>

LLMS_URLS == <<
    Https("platform.claude.com") \o <<"/", "docs", "/", "llms.txt">>,
    Https("code.claude.com") \o <<"/", "docs", "/", "llms.txt">>,
    Https("docs.anthropic.com") \o <<"/", "docs", "/", "llms.txt">>,
    Https("docs.anthropic.com") \o <<"/", "llms.txt">> >>

SITEMAP_URLS == <<
    Https("platform.claude.com") \o <<"/", "docs", "/", "sitemap.xml">>,
    Https("code.claude.com") \o <<"/", "docs", "/", "sitemap.xml">>,
    Https("docs.anthropic.com") \o <<"/", "sitemap.xml">> >>

AGENT_SDK_PATH_MARKERS == <<
    <<"/", "docs", "/", "en", "/", "agent-sdk", "/">>,
    <<"/", "en", "/", "docs", "/", "agent-sdk", "/">>,
    <<"/", "agent-sdk", "/">> >>

MANIFEST_FILE == <<"docs_manifest", ".json">>

CUSTOM_FILES == { <<"openrouter-support", ".md">> }

MAX_RETRIES == 3

-----------------------------------------------------------------------------
(* URL helpers *)

\* urlparse(url).path: what follows scheme://netloc (no query or fragment
\* occurs in the URLs of the model)
UrlPath(url) == SubSeq(url, 4, Len(url))

url_to_safe_filename(url_or_path) ==
    LET path0 == IF Contains(url_or_path, <<"//">>) THEN UrlPath(url_or_path)
                 ELSE url_or_path
        path1 == RStrip(path0, {"/"})
        path == IF EndsWith(path1, <<".md">>) THEN DropLast(path1, 1)
                ELSE IF EndsWith(path1, <<".html">>) THEN DropLast(path1, 1)
                ELSE path1
        found == {k \in 1..Len(AGENT_SDK_PATH_MARKERS) :
                    Contains(path, AGENT_SDK_PATH_MARKERS[k])}
        slug0 == IF found = {} THEN <<>>
                 ELSE LET marker == AGENT_SDK_PATH_MARKERS[Min(found)]
                      IN  SubSeq(path, Find(path, marker) + Len(marker), Len(path))
        slug1 == IF slug0 = <<>> THEN LastPart(Strip(path, {"/"}), "/") ELSE slug0
        slug2 == IF slug1 # <<>> THEN Strip(slug1, {"/"}) ELSE <<"index">>
        slug == IF slug2 = <<>> THEN <<"index">> ELSE slug2
        safe_name == Replace(slug, "/", "__")
    IN  IF EndsWith(safe_name, <<".md">>) THEN safe_name ELSE safe_name \o <<".md">>

\* normalize_doc_url(url) = (original_url, markdown_url)
normalize_doc_url(url0) ==
    LET url1 == Strip(url0, Whitespace)
        url == IF EndsWith(url1, <<"/">>) THEN DropLast(url1, 1) ELSE url1
    IN  IF EndsWith(url, <<".md">>)
            THEN [original_url |-> DropLast(url, 1), markdown_url |-> url]
        ELSE IF EndsWith(url, <<".html">>)
            THEN [original_url |-> DropLast(url, 1),
                  markdown_url |-> DropLast(url, 1) \o <<".md">>]
        ELSE [original_url |-> url, markdown_url |-> url \o <<".md">>]

is_agent_sdk_url(url) ==
    \E k \in 1..Len(AGENT_SDK_PATH_MARKERS) : Contains(url, AGENT_SDK_PATH_MARKERS[k])

-----------------------------------------------------------------------------
(* Page bodies.  A body is a non-empty sequence of lines; the empty string *)
(* is the single empty line <<"blank">>.  The line kinds and their texts:  *)
(*   heading  "## Section heading text"                                    *)
(*   bullet   "- list item text here"                                      *)
(*   text     "plain paragraph text of a page"                             *)
(*   quote    "> **Note:** Remember this"                                  *)
(*   note     "<Note>Remember this</Note>"                                 *)
(*   import   "import { Card } from '/snippets/card.jsx';"                 *)
(*   export   "export const config = {"                                    *)
(*   close    "};"                                                         *)
(*   doctype  "<!DOCTYPE html>"                                            *)
(*   htmltag  "<html lang=\"en\">"                                         *)
(*   blank    ""                                                           *)

\* len(line)
LineLen(line) ==
    CASE line = "heading" -> 23
      [] line = "bullet" -> 21
      [] line = "text" -> 30
      [] line = "quote" -> 25
      [] line = "note" -> 26
      [] line = "import" -> 42
      [] line = "export" -> 23
      [] line = "close" -> 2
      [] line = "doctype" -> 15
      [] line = "htmltag" -> 16
      [] OTHER -> 0

RECURSIVE SumLen(_)
SumLen(lines) == IF lines = <<>> THEN 0 ELSE LineLen(Head(lines)) + SumLen(Tail(lines))

\* len(content): the lines and the newlines between them
CharLen(content) == SumLen(content) + Len(content) - 1

\* content.strip(): no line of the model has inner leading or trailing blanks
StripText(content) ==
    LET s == Strip(content, {"blank"}) IN IF s = <<>> THEN <<"blank">> ELSE s

\* remove_export_components: drop each export block up to its closing line
RECURSIVE remove_export_components(_, _)
remove_export_components(lines, skipping) ==
    IF lines = <<>> THEN <<>>
    ELSE IF skipping
        THEN remove_export_components(Tail(lines), Head(lines) # "close")
    ELSE IF Head(lines) = "export"
        THEN remove_export_components(Tail(lines), TRUE)
    ELSE <<Head(lines)>> \o remove_export_components(Tail(lines), FALSE)

\* re.sub(r'<Note>\s*(.*?)\s*</Note>', r'> **Note:** \1', ...)
ConvertNotes(lines) == [i \in 1..Len(lines) |-> IF lines[i] = "note" THEN "quote" ELSE lines[i]]

\* re.sub(r'^import\s+.*?[\'"];?\s*$', '', ..., MULTILINE): the import line goes,
\* and its trailing \s* takes the empty lines that follow it with it
RECURSIVE RemoveImports(_, _)
RemoveImports(lines, afterImport) ==
    IF lines = <<>> THEN <<>>
    ELSE IF Head(lines) = "import"
        THEN <<"blank">> \o RemoveImports(Tail(lines), TRUE)
    ELSE IF afterImport /\ Head(lines) = "blank"
        THEN RemoveImports(Tail(lines), TRUE)
    ELSE <<Head(lines)>> \o RemoveImports(Tail(lines), FALSE)

\* re.sub(r'\n{4,}', '\n\n\n', ...): at most two empty lines in a row
RECURSIVE CollapseBlank(_, _)
CollapseBlank(lines, run) ==
    IF lines = <<>> THEN <<>>
    ELSE IF Head(lines) = "blank"
        THEN (IF run >= 2 THEN <<>> ELSE <<"blank">>) \o CollapseBlank(Tail(lines), run + 1)
    ELSE <<Head(lines)>> \o CollapseBlank(Tail(lines), 0)

clean_mdx_content(content) ==
    LET kept == remove_export_components(content, FALSE)
        c1 == IF kept = <<>> THEN <<"blank">> ELSE kept
    IN  StripText(CollapseBlank(RemoveImports(ConvertNotes(c1), FALSE), 0))

\* a line that counts as a markdown indicator
IsIndicator(line) == line \in {"heading", "bullet", "quote"}

HTML_WINDOW == 100

MIN_CONTENT_LEN == 50

INDICATOR_LINES == 50

MIN_INDICATORS == 3

\* the offset of line i in the content
Offset(content, i) == SumLen(SubSeq(content, 1, i - 1)) + (i - 1)

\* validate_markdown_content: "ok", or the ValueError it raises
validate_markdown_content(content) ==
    IF \/ content = <<"blank">>
       \/ Head(content) = "doctype"
       \/ \E i \in 1..Len(content) :
            content[i] = "htmltag" /\ Offset(content, i) + 5 <= HTML_WINDOW
        THEN "html"
    ELSE IF CharLen(StripText(content)) < MIN_CONTENT_LEN THEN "short"
    ELSE IF Cardinality({i \in 1..Min({Len(content), INDICATOR_LINES}) :
                            IsIndicator(content[i])}) < MIN_INDICATORS
        THEN "not_markdown"
    ELSE "ok"

\* hashlib.sha256(content.encode('utf-8')).hexdigest(), taken as collision-free
Sha256(content) == <<"sha256", content>>

-----------------------------------------------------------------------------
(* sorted(): Python orders strings by code point.  TokenOrder lists the     *)
(* tokens of URLs and file names in that order.                            *)

TokenOrder == <<" ", ".html", ".json", ".md", "/", "//", "__", "agent-sdk", "api",
                "code.claude.com", "cost-tracking", "custom-tools", "docs",
                "docs.anthropic.com", "docs_manifest", "en", "guide", "hooks",
                "hosting", "https:", "index", "legacy", "llms.txt", "mcp", "messages",
                "migration-guide", "modifying-system-prompts", "my",
                "openrouter-support", "overview", "permissions", "platform.claude.com",
                "plugins", "python", "quickstart", "secure-deployment", "sessions",
                "settings", "sitemap-pages.xml", "sitemap.xml", "skills",
                "slash-commands", "streaming-vs-single-mode", "structured-outputs",
                "subagents", "todo-tracking", "typescript">>

Rank(t) == CHOOSE k \in 1..Len(TokenOrder) : TokenOrder[k] = t

\* a < b for two strings
Less(a, b) ==
    LET diff == {i \in 1..Min({Len(a), Len(b)}) : a[i] # b[i]}
    IN  IF diff = {} THEN Len(a) < Len(b)
        ELSE Rank(a[Min(diff)]) < Rank(b[Min(diff)])

\* sorted(list(S))
RECURSIVE Sorted(_)
Sorted(S) ==
    IF S = {} THEN <<>>
    ELSE LET least == CHOOSE a \in S : \A b \in S \ {a} : Less(a, b)
         IN  <<least>> \o Sorted(S \ {least})

\* set(list)
ToSet(list) == {list[i] : i \in 1..Len(list)}

-----------------------------------------------------------------------------
(* SKILL.md *)

\* a file on disk: missing, or with its content
NoFile == [exists |-> FALSE, content |-> <<>>]

File(content) == [exists |-> TRUE, content |-> content]

\* a token that [^<backtick>\s] of the reference pattern can match
RefChar(t) == t \notin (Whitespace \cup {Backtick})

\* Where the group ([^`\s]+\.(?:md|json)) ends when it starts at position i of
\* content, 0 when it does not match there: the last ".md" or ".json" of the
\* run of [^`\s] tokens that starts at i, at least one token after i.
GroupEnd(content, i) ==
    LET stop == {j \in i..Len(content) : ~RefChar(content[j])}
        runEnd == IF stop = {} THEN Len(content) ELSE Min(stop) - 1
        ends == {k \in (i + 1)..runEnd : content[k] \in {".md", ".json"}}
    IN  IF ends = {} THEN 0 ELSE Max(ends)

\* re.findall(r'`?references/([^`\s]+\.(?:md|json))`?', content), as a set
RECURSIVE FindReferences(_, _)
FindReferences(content, i) ==
    IF i > Len(content) THEN {}
    ELSE IF content[i] = "references/" /\ GroupEnd(content, i + 1) # 0
        THEN LET e == GroupEnd(content, i + 1)
             IN  {SubSeq(content, i + 1, e)} \cup FindReferences(content, e + 1)
    ELSE FindReferences(content, i + 1)

\* get_skill_md_references() with SKILL.md as given
get_skill_md_references(skill) ==
    IF ~skill.exists THEN {} ELSE FindReferences(skill.content, 1)

\* (faulty variant, for sensitivity) the manifest file is not taken out of the unreferenced names
validate_skill_md_keeps_manifest(fetched, skill) ==
    LET referenced == get_skill_md_references(skill)
    IN  [orphaned |-> Sorted(((referenced \ fetched) \ {MANIFEST_FILE}) \ CUSTOM_FILES),
         unreferenced |-> Sorted(fetched \ referenced),
         custom |-> Sorted(referenced \cap CUSTOM_FILES)]

validate_skill_md(fetched, skill) ==
    LET referenced == get_skill_md_references(skill)
    IN  [orphaned |-> Sorted(((referenced \ fetched) \ {MANIFEST_FILE}) \ CUSTOM_FILES),
         unreferenced |-> Sorted((fetched \ referenced) \ {MANIFEST_FILE}),
         custom |-> Sorted(referenced \cap CUSTOM_FILES)]

UncategorizedTitle == <<"###", " ", "Uncategorized", " ", "(New)">>

UncategorizedHeader ==
    <<"\n", "\n">> \o UncategorizedTitle \o <<"\n", "\n">>
    \o <<"<!--", " ", "Review", " ", "and", " ", "move", " ", "these", " ", "to", " ",
         "appropriate", " ", "sections", " ", "-->", "\n", "\n">>

\* f"- `references/{filename}` - (new, needs categorization)\n"
UncategorizedLine(filename) ==
    <<"-", " ", Backtick, "references/">> \o filename
    \o <<Backtick, " ", "-", " ", "(new,", " ", "needs", " ", "categorization)", "\n">>

RECURSIVE UncategorizedLines(_)
UncategorizedLines(new_files) ==
    IF new_files = <<>> THEN <<>>
    ELSE UncategorizedLine(Head(new_files)) \o UncategorizedLines(Tail(new_files))

\* update_skill_md_uncategorized(new_files): the new content of SKILL.md
\* (called with a non-empty list on an existing file)
update_skill_md_uncategorized(new_files, content) ==
    LET section == IF ~Contains(content, UncategorizedTitle) THEN UncategorizedHeader
                   ELSE <<>>
    IN  RStrip(content, Whitespace) \o section \o UncategorizedLines(new_files)

-----------------------------------------------------------------------------
(* Discovery *)

\* one line of llms.txt: the URL it contributes, as a set (empty: none)
LlmsLineUrls(line0, base) ==
    LET line1 == Strip(line0, Whitespace)
        line2 == IF line1 # <<>> /\ Head(line1) = "-"
                    THEN Strip(LStrip(line1, {"-"}), Whitespace) ELSE line1
        line == IF line2 # <<>> /\ Head(line2) = "/" THEN base \o line2 ELSE line2
    IN  IF line1 = <<>> THEN <<>>
        ELSE IF Head(line1) \in {"#", "##"} THEN <<>>
        ELSE IF line # <<>> /\ Head(line) \in {"http:", "https:"} /\ is_agent_sdk_url(line)
            THEN <<line>>
        ELSE <<>>

\* parse_llms_txt(text, base_url), text given as its lines
RECURSIVE parse_llms_txt(_, _)
parse_llms_txt(text, base_url) ==
    IF text = <<>> THEN <<>>
    ELSE LlmsLineUrls(Head(text), base_url) \o parse_llms_txt(Tail(text), base_url)

\* f"{scheme}://{netloc}" of a URL
BaseOf(url) == SubSeq(url, 1, 3)

\* what an XML document at a sitemap URL is: "urlset" or "sitemapindex" with the
\* texts of its <loc> elements, or "error" (the request, raise_for_status or
\* the XML parser raises)
SitemapDoc(kind, locs) == [kind |-> kind, locs |-> locs]

\* fetch_sitemap_urls(session, sitemap_url, seen) against a site, a function
\* from sitemap URL to document: the URLs, the URLs requested so far, and
\* whether it raised
RECURSIVE fetch_sitemap_urls(_, _, _), FetchEachSitemap(_, _, _)
fetch_sitemap_urls(site, sitemap_url, seen) ==
    IF sitemap_url \in seen THEN [urls |-> <<>>, seen |-> seen, raised |-> FALSE]
    ELSE LET doc == site[sitemap_url]
             seen1 == seen \cup {sitemap_url}
         IN  IF doc.kind = "error" THEN [urls |-> <<>>, seen |-> seen1, raised |-> TRUE]
             ELSE IF doc.kind = "sitemapindex" THEN FetchEachSitemap(site, doc.locs, seen1)
             ELSE [urls |-> doc.locs, seen |-> seen1, raised |-> FALSE]

FetchEachSitemap(site, locs, seen) ==
    IF locs = <<>> THEN [urls |-> <<>>, seen |-> seen, raised |-> FALSE]
    ELSE LET first == fetch_sitemap_urls(site, Head(locs), seen)
         IN  IF first.raised THEN first
             ELSE LET rest == FetchEachSitemap(site, Tail(locs), first.seen)
                  IN  [urls |-> first.urls \o rest.urls, seen |-> rest.seen,
                       raised |-> rest.raised]

\* one iteration of the loop of discover_pages_from_llms: the list it returns,
\* <<>> when it goes on to the next source
LlmsIteration(resp, llms_url) ==
    IF resp.kind = "exception" THEN <<>>
    ELSE IF resp.status_code # 200 THEN <<>>
    ELSE Sorted(ToSet(parse_llms_txt(resp.text, BaseOf(llms_url))))

\* one iteration of the loop of discover_pages_from_sitemap
SitemapIteration(site, sitemap_url) ==
    LET got == fetch_sitemap_urls(site, sitemap_url, {})
    IN  IF got.raised THEN <<>>
        ELSE Sorted({u \in ToSet(got.urls) : is_agent_sdk_url(u)})

AgentSdkDocs == Https("platform.claude.com") \o <<"/", "docs", "/", "en", "/", "agent-sdk", "/">>

\* how many entries of the static list the model keeps
MaxFallbackPages == 2

FallbackPages ==
    <<AgentSdkDocs \o <<"overview">>,
      AgentSdkDocs \o <<"quickstart">>,
      AgentSdkDocs \o <<"python">>,
      AgentSdkDocs \o <<"typescript">>,
      AgentSdkDocs \o <<"permissions">>,
      AgentSdkDocs \o <<"settings">>,
      AgentSdkDocs \o <<"sessions">>,
      AgentSdkDocs \o <<"streaming-vs-single-mode">>,
      AgentSdkDocs \o <<"structured-outputs">>,
      AgentSdkDocs \o <<"mcp">>,
      AgentSdkDocs \o <<"custom-tools">>,
      AgentSdkDocs \o <<"hooks">>,
      AgentSdkDocs \o <<"subagents">>,
      AgentSdkDocs \o <<"skills">>,
      AgentSdkDocs \o <<"slash-commands">>,
      AgentSdkDocs \o <<"plugins">>,
      AgentSdkDocs \o <<"todo-tracking">>,
      AgentSdkDocs \o <<"cost-tracking">>,
      AgentSdkDocs \o <<"hosting">>,
      AgentSdkDocs \o <<"secure-deployment">>,
      AgentSdkDocs \o <<"modifying-system-prompts">>,
      AgentSdkDocs \o <<"migration-guide">> >>

\* get_fallback_pages(): the static list, cut to its first entries
get_fallback_pages == SubSeq(FallbackPages, 1, Min({MaxFallbackPages, Len(FallbackPages)}))

\* (faulty variant, for sensitivity) the sitemaps are tried whatever llms.txt gave
AfterLlmsAlwaysSitemap(urls) == "sitemap"

\* discover_doc_urls after discover_pages_from_llms returned urls
AfterLlms(urls) == IF urls # <<>> THEN "return" ELSE "sitemap"

\* discover_doc_urls after discover_pages_from_sitemap returned urls
AfterSitemap(urls) == IF urls # <<>> THEN "return" ELSE "fallback"

-----------------------------------------------------------------------------
(* Maps (Python dicts, the files of a directory) as functions *)

EmptyMap == [k \in {} |-> {}]

Put(m, key, value) == [k \in DOMAIN m \cup {key} |-> IF k = key THEN value ELSE m[k]]

Without(m, keys) == [k \in DOMAIN m \ keys |-> m[k]]

-----------------------------------------------------------------------------
(* What the servers, the environment and the disk can hold *)

\* an environment variable that is not set (or empty)
NoValue == <<>>

PageOverview == AgentSdkDocs \o <<"overview">>

PageOverviewMd == AgentSdkDocs \o <<"overview", ".md">>

PageCustom == AgentSdkDocs \o <<"openrouter-support">>

PageMyGuide == AgentSdkDocs \o <<"my", " ", "guide">>

PageApi == Https("platform.claude.com") \o <<"/", "docs", "/", "en", "/", "api", "/", "messages">>

\* llms.txt documents, as their lines
LlmsLinks ==
    << <<"#", " ", "Docs">>,
       <<"-", " ", "[Overview](">> \o PageOverview \o <<")">> >>

LlmsPages ==
    << <<"#", " ", "Docs">>, <<>>,
       <<"-", " ">> \o PageOverviewMd,
       <<" ", "-", " ">> \o PageOverview \o <<" ">>,
       <<"-", " ">> \o PageApi,
       <<"-", " ">> \o PageOverview >>

LlmsRelative ==
    << <<"/", "docs", "/", "en", "/", "agent-sdk", "/", "openrouter-support">>,
       <<"/", "docs", "/", "en", "/", "api", "/", "messages">> >>

LlmsTexts == {<<>>, LlmsLinks, LlmsPages, LlmsRelative}

LlmsResponses ==
    {[kind |-> "exception"], [kind |-> "response", status_code |-> 404, text |-> <<>>]}
    \cup {[kind |-> "response", status_code |-> 200, text |-> t] : t \in LlmsTexts}

EnvLlmsUrl == Https("docs.anthropic.com") \o <<"/", "en", "/", "llms.txt">>

EnvSitemapUrl == Https("docs.anthropic.com") \o <<"/", "en", "/", "sitemap.xml">>

ChildSitemap == Https("platform.claude.com") \o <<"/", "docs", "/", "sitemap-pages.xml">>

SitemapLocations == ToSet(SITEMAP_URLS) \cup {EnvSitemapUrl, ChildSitemap}

\* sites: what each sitemap URL answers
SiteDown == [u \in SitemapLocations |-> SitemapDoc("error", <<>>)]

SiteEmpty == [u \in SitemapLocations |-> SitemapDoc("urlset", <<>>)]

SiteOther == [u \in SitemapLocations |-> SitemapDoc("urlset", <<PageApi>>)]

SitePages ==
    [u \in SitemapLocations |->
        SitemapDoc("urlset", <<PageOverview, PageApi, PageMyGuide, PageOverview>>)]

SiteIndex ==
    [u \in SitemapLocations |->
        IF u = ChildSitemap THEN SitemapDoc("urlset", <<PageCustom, PageMyGuide>>)
        ELSE SitemapDoc("sitemapindex", <<ChildSitemap, ChildSitemap, u>>)]

SiteBrokenIndex ==
    [u \in SitemapLocations |->
        IF u = ChildSitemap THEN SitemapDoc("error", <<>>)
        ELSE SitemapDoc("sitemapindex", <<SITEMAP_URLS[3], ChildSitemap>>)]

Sites == {SiteDown, SiteEmpty, SiteOther, SitePages, SiteIndex, SiteBrokenIndex}

\* page bodies
BodyMarkdown == <<"heading", "text", "bullet", "bullet">>

BodyMdx == <<"import", "blank", "heading", "note", "export", "text", "close", "bullet">>

BodyHtml == <<"doctype", "htmltag", "heading", "bullet", "bullet">>

BodyShort == <<"heading", "bullet">>

BodyProse == <<"text", "text", "heading">>

BodyEmpty == <<"blank">>

Bodies == {BodyMarkdown, BodyMdx, BodyHtml, BodyShort, BodyProse, BodyEmpty}

\* what a GET of a page answers: a request exception, or a response; a 429
\* carries a Retry-After header that int() accepts ("seconds") or not ("date")
PageResponses ==
    {[kind |-> "exception"]}
    \cup {[kind |-> "response", status_code |-> 200, body |-> b] : b \in Bodies}
    \cup {[kind |-> "response", status_code |-> 500, body |-> BodyEmpty]}
    \cup {[kind |-> "response", status_code |-> 429, retry_after |-> r] :
             r \in {"seconds", "date"}}

\* the references directory before the run
OldBody == <<"heading", "bullet", "bullet", "text">>

FileOverview == <<"overview", ".md">>

FileLegacy == <<"legacy", ".md">>

FileCustom == <<"openrouter-support", ".md">>

InitialFiles == {FileOverview, FileLegacy, FileCustom}

InitialReferences == {[f \in D |-> OldBody] : D \in SUBSET InitialFiles}

ManifestEntry(filename, content) ==
    [original_url |-> AgentSdkDocs \o DropLast(filename, 1), hash |-> Sha256(content)]

NoMetadata == [successful |-> 0, failed |-> 0, failed_pages |-> <<>>]

\* the manifest file: missing, or with its "files" and "fetch_metadata"
NoManifest == [exists |-> FALSE, files |-> EmptyMap, fetch_metadata |-> NoMetadata]

ManifestOf(D) ==
    [exists |-> TRUE, files |-> [f \in D |-> ManifestEntry(f, OldBody)],
     fetch_metadata |-> NoMetadata]

InitialManifests ==
    {NoManifest, ManifestOf({}), ManifestOf({FileOverview, FileLegacy}),
     ManifestOf({FileOverview, FileLegacy, FileCustom})}

\* SKILL.md before the run
SkillPlain ==
    <<"#", " ", "Skill", "\n", "\n",
      "-", " ", Backtick, "references/", "overview", ".md", Backtick, "\n",
      "-", " ", Backtick, "references/", "openrouter-support", ".md", Backtick, "\n",
      "-", " ", "references/", "hooks", ".md", "\n">>

SkillUncategorized ==
    <<"-", " ", Backtick, "references/", "legacy", ".md", Backtick, "\n", "\n">>
    \o UncategorizedTitle
    \o <<"\n", "\n">> \o UncategorizedLine(<<"overview", ".md">>) \o <<"\n">>

InitialSkills == {NoFile, File(SkillPlain), File(SkillUncategorized)}

Arguments == [validate : BOOLEAN, update_skill : BOOLEAN]

-----------------------------------------------------------------------------
(* The program state *)

VARIABLES
    pc,                 \* where the run is
    args,               \* the parsed command line
    exit_code,          \* what main returned (-1: still running)
    refs,               \* the files of the references directory: name -> content
    manifest_file,      \* docs_manifest.json on disk
    skill_md,           \* SKILL.md on disk
    manifest,           \* fetch_docs: the manifest loaded at the start
    new_manifest,       \* fetch_docs: the manifest being built
    documentation_urls, \* fetch_docs: the discovered URLs
    idx,                \* fetch_docs: the position of the loop in documentation_urls
    successful,
    failed,
    failed_pages,
    fetched_files,
    source_urls,        \* discover_pages_from_*: llms_urls or sitemap_urls
    source_i,           \* discover_pages_from_*: the position of the loop
    attempt,            \* fetch_markdown_url: the loop variable
    call,               \* fetch_markdown_url: how the current call ended
    validation,         \* main: the result of validate_skill_md
    \* the history the properties are stated about
    http_used,          \* whether any HTTP request was sent
    disc_trace,         \* discover_doc_urls: the sources asked and what each gave
    call_trace,         \* fetch_markdown_url: the answers got and whether it slept
    processed,          \* fetch_docs: the URLs the loop is done with and how each call ended
    skipped,            \* fetch_docs: the pages skipped as custom files
    written,            \* fetch_docs: name -> the content last written to it
    removed,            \* cleanup_old_files: the files it unlinked
    before              \* the disk when main started

vars == <<pc, args, exit_code, refs, manifest_file, skill_md, manifest, new_manifest,
          documentation_urls, idx, successful, failed, failed_pages, fetched_files,
          source_urls, source_i, attempt, call, validation, http_used, disc_trace,
          call_trace, processed, skipped, written, removed, before>>

disk == <<refs, manifest_file, skill_md>>

loop_state == <<new_manifest, idx, successful, failed, failed_pages, fetched_files,
                processed, skipped, written>>

discovery == <<source_urls, source_i, disc_trace, documentation_urls>>

NoCall == [kind |-> "running"]

NoValidation == [orphaned |-> <<>>, unreferenced |-> <<>>, custom |-> <<>>]

Program ==
    /\ args = [validate |-> FALSE, update_skill |-> FALSE]
    /\ exit_code = -1
    /\ manifest = [files |-> EmptyMap]
    /\ new_manifest = [files |-> EmptyMap]
    /\ documentation_urls = <<>>
    /\ idx = 0
    /\ successful = 0
    /\ failed = 0
    /\ failed_pages = <<>>
    /\ fetched_files = {}
    /\ source_urls = <<>>
    /\ source_i = 0
    /\ attempt = 0
    /\ call = NoCall
    /\ validation = NoValidation
    /\ http_used = FALSE
    /\ disc_trace = <<>>
    /\ call_trace = <<>>
    /\ processed = <<>>
    /\ skipped = 0
    /\ written = EmptyMap
    /\ removed = {}

Init ==
    /\ pc = "main"
    /\ refs \in InitialReferences
    /\ manifest_file \in InitialManifests
    /\ skill_md \in InitialSkills
    /\ before = [refs |-> refs, manifest_file |-> manifest_file, skill_md |-> skill_md]
    /\ Program

-----------------------------------------------------------------------------
(* main *)

\* get_references_dir().glob('*.md')
GlobMd(files) == {f \in DOMAIN files : EndsWith(f, <<".md">>)}

\* (faulty variant, for sensitivity) --update-skill wins over --validate
MainBranchUpdateFirst(a) == IF a.validate /\ ~a.update_skill THEN "validate" ELSE "fetch"

\* main: the branch the arguments select
MainBranch(a) == IF a.validate THEN "validate" ELSE "fetch"

\* load_manifest()
load_manifest(file) == IF ~file.exists THEN [files |-> EmptyMap] ELSE [files |-> file.files]

\* (faulty variant, for sensitivity) the new manifest starts from the loaded one
InitialNewManifestCarried(loaded) == [files |-> loaded.files]

\* fetch_docs: new_manifest at the start
InitialNewManifest(loaded) == [files |-> EmptyMap]

\* main with the arguments a, up to the return of --validate or to the first
\* request of fetch_docs; env_llms is AGENT_SDK_DOCS_LLMS_URL
Main(a, env_llms) ==
    /\ pc = "main"
    /\ args' = a
    /\ IF MainBranch(a) = "validate"
       THEN /\ validation' = validate_skill_md(GlobMd(refs) \cup {MANIFEST_FILE}, skill_md)
            /\ exit_code' = 0
            /\ pc' = "done"
            /\ UNCHANGED <<manifest, new_manifest, source_urls, source_i>>
       ELSE /\ manifest' = load_manifest(manifest_file)
            /\ new_manifest' = InitialNewManifest(manifest')
            /\ source_urls' = (IF env_llms # NoValue THEN <<env_llms>> ELSE <<>>) \o LLMS_URLS
            /\ source_i' = 1
            /\ pc' = "llms"
            /\ UNCHANGED <<validation, exit_code>>
    /\ UNCHANGED <<disk, before, documentation_urls, idx, successful, failed, failed_pages,
                   fetched_files, attempt, call, http_used, disc_trace, call_trace,
                   processed, skipped, written, removed>>

-----------------------------------------------------------------------------
(* discover_doc_urls *)

SourceEntry(source, url, found) == [source |-> source, url |-> url, found |-> found]

\* discover_doc_urls once discover_pages_from_sitemap returned urls
SitemapReturns(urls, trace) ==
    /\ IF AfterSitemap(urls) = "return"
       THEN /\ documentation_urls' = urls
            /\ disc_trace' = trace
       ELSE /\ documentation_urls' = get_fallback_pages
            /\ disc_trace' = Append(trace, SourceEntry("fallback", <<>>, get_fallback_pages))
    /\ pc' = "discovered"
    /\ UNCHANGED <<source_urls, source_i>>

\* discover_doc_urls once discover_pages_from_llms returned urls;
\* env_sitemap is AGENT_SDK_DOCS_SITEMAP_URL
LlmsReturns(urls, trace, env_sitemap) ==
    IF AfterLlms(urls) = "return"
    THEN /\ documentation_urls' = urls
         /\ disc_trace' = trace
         /\ pc' = "discovered"
         /\ UNCHANGED <<source_urls, source_i>>
    ELSE /\ source_urls' = (IF env_sitemap # NoValue THEN <<env_sitemap>> ELSE <<>>)
                           \o SITEMAP_URLS
         /\ source_i' = 1
         /\ disc_trace' = trace
         /\ pc' = "sitemap"
         /\ UNCHANGED documentation_urls

\* one iteration of discover_pages_from_llms: the request and its answer
TryLlms(resp, env_sitemap) ==
    /\ pc = "llms"
    /\ LET llms_url == source_urls[source_i]
           urls == LlmsIteration(resp, llms_url)
           trace == Append(disc_trace, SourceEntry("llms", llms_url, urls))
       IN  IF urls # <<>> THEN LlmsReturns(urls, trace, env_sitemap)
           ELSE IF source_i < Len(source_urls)
               THEN /\ source_i' = source_i + 1
                    /\ disc_trace' = trace
                    /\ UNCHANGED <<pc, source_urls, documentation_urls>>
           ELSE LlmsReturns(<<>>, trace, env_sitemap)
    /\ http_used' = TRUE
    /\ UNCHANGED <<disk, before, args, exit_code, manifest, loop_state, attempt, call,
                   validation, call_trace, removed>>

\* one iteration of discover_pages_from_sitemap: fetch_sitemap_urls against
\* the site and the filter
TrySitemap(site) ==
    /\ pc = "sitemap"
    /\ LET sitemap_url == source_urls[source_i]
           urls == SitemapIteration(site, sitemap_url)
           trace == Append(disc_trace, SourceEntry("sitemap", sitemap_url, urls))
       IN  IF urls # <<>> THEN SitemapReturns(urls, trace)
           ELSE IF source_i < Len(source_urls)
               THEN /\ source_i' = source_i + 1
                    /\ disc_trace' = trace
                    /\ UNCHANGED <<pc, source_urls, documentation_urls>>
           ELSE SitemapReturns(<<>>, trace)
    /\ http_used' = TRUE
    /\ UNCHANGED <<disk, before, args, exit_code, manifest, loop_state, attempt, call,
                   validation, call_trace, removed>>

-----------------------------------------------------------------------------
(* fetch_markdown_url *)

\* fetch_docs: the loop starts on the discovered URLs, with its first call of
\* fetch_markdown_url; the frames of the discovery functions are gone
StartLoop ==
    /\ pc = "discovered"
    /\ idx' = 1
    /\ attempt' = 0
    /\ call' = NoCall
    /\ pc' = IF documentation_urls = <<>> THEN "cleanup" ELSE "attempt"
    /\ source_urls' = <<>>
    /\ source_i' = 0
    /\ disc_trace' = <<>>
    /\ UNCHANGED <<disk, before, args, exit_code, manifest, new_manifest,
                   documentation_urls, successful, failed, failed_pages, fetched_files,
                   validation, http_used, call_trace, processed, skipped, written,
                   removed>>

\* what an answer is: a request exception (raise_for_status raises one on an
\* error status), a rate limit, or a body that is valid or not once cleaned
AnswerClass(resp) ==
    IF resp.kind = "exception" THEN "request_exception"
    ELSE IF resp.status_code = 429 THEN "rate_limited"
    ELSE IF resp.status_code >= 400 THEN "request_exception"
    ELSE IF validate_markdown_content(clean_mdx_content(resp.body)) = "ok" THEN "valid"
    ELSE "invalid"

\* (faulty variant, for sensitivity) a validation failure is retried like a request exception
AttemptOutcomeRetryInvalid(resp, n) ==
    IF resp.kind = "response" /\ resp.status_code = 429
        THEN IF resp.retry_after = "seconds" THEN "sleep_continue"
             ELSE "raise_value_error"
    ELSE IF resp.kind = "exception" \/ resp.status_code >= 400
        THEN IF n < MAX_RETRIES - 1 THEN "sleep_continue" ELSE "raise_exception"
    ELSE IF validate_markdown_content(clean_mdx_content(resp.body)) = "ok" THEN "return"
    ELSE IF n < MAX_RETRIES - 1 THEN "sleep_continue" ELSE "raise_value_error"

\* one iteration of the loop of fetch_markdown_url: what the body of the loop
\* does with the answer, on attempt number n (from 0):
\*   "return", "raise_value_error", "raise_exception", or going round again
\*   after time.sleep ("sleep_continue")
AttemptOutcome(resp, n) ==
    IF resp.kind = "response" /\ resp.status_code = 429
        THEN IF resp.retry_after = "seconds" THEN "sleep_continue"
             ELSE "raise_value_error"
    ELSE IF resp.kind = "exception" \/ resp.status_code >= 400
        THEN IF n < MAX_RETRIES - 1 THEN "sleep_continue" ELSE "raise_exception"
    ELSE IF validate_markdown_content(clean_mdx_content(resp.body)) = "ok" THEN "return"
    ELSE "raise_value_error"

\* the content fetch_markdown_url returns for a body
ReturnedContent(body) == clean_mdx_content(body)

Attempt(resp) ==
    /\ pc = "attempt"
    /\ LET doc_url == documentation_urls[idx]
           urls == normalize_doc_url(doc_url)
           filename == url_to_safe_filename(urls.original_url)
           outcome == AttemptOutcome(resp, attempt)
       IN  /\ call_trace' = Append(call_trace,
                                   [answer |-> AnswerClass(resp),
                                    slept |-> outcome = "sleep_continue"])
           /\ IF outcome = "return"
                  THEN /\ call' = [kind |-> "returned", filename |-> filename,
                                   content |-> ReturnedContent(resp.body),
                                   original_url |-> urls.original_url]
                       /\ pc' = "called"
                       /\ UNCHANGED attempt
              ELSE IF outcome = "raise_value_error"
                  THEN /\ call' = [kind |-> "raised", error |-> "ValueError"]
                       /\ pc' = "called"
                       /\ UNCHANGED attempt
              ELSE IF outcome = "raise_exception"
                  THEN /\ call' = [kind |-> "raised", error |-> "Exception"]
                       /\ pc' = "called"
                       /\ UNCHANGED attempt
              ELSE IF attempt + 1 < MAX_RETRIES
                  THEN /\ attempt' = attempt + 1
                       /\ UNCHANGED <<call, pc>>
              \* the for loop is exhausted: the function ends without a return
              ELSE /\ call' = [kind |-> "none"]
                   /\ pc' = "called"
                   /\ UNCHANGED attempt
    /\ http_used' = TRUE
    /\ UNCHANGED <<disk, before, args, exit_code, manifest, loop_state, discovery,
                   validation, removed>>

-----------------------------------------------------------------------------
(* fetch_docs *)

\* (faulty variant, for sensitivity) the clause catches only what fetch_markdown_url raises itself
CaughtRaisedOnly(c) == c.kind = "raised"

\* the except Exception clause of the loop catches what the call raised, and
\* the TypeError of unpacking None
Caught(c) == c.kind \in {"raised", "none"}

\* the loop goes to the next URL, or fetch_docs goes on to the cleanup
NextUrl ==
    /\ idx' = idx + 1
    /\ attempt' = 0
    /\ call' = NoCall
    /\ call_trace' = <<>>
    /\ processed' = Append(processed, [url |-> documentation_urls[idx], result |-> call.kind])
    /\ pc' = IF idx < Len(documentation_urls) THEN "attempt" ELSE "cleanup"

\* the body of the loop of fetch_docs once fetch_markdown_url has ended
HandleResult ==
    /\ pc = "called"
    /\ IF call.kind = "returned" /\ call.filename \in CUSTOM_FILES
       THEN /\ skipped' = skipped + 1
            /\ NextUrl
            /\ UNCHANGED <<refs, written, fetched_files, new_manifest, successful, failed,
                           failed_pages, exit_code>>
       ELSE IF call.kind = "returned"
       THEN /\ refs' = Put(refs, call.filename, call.content)
            /\ written' = Put(written, call.filename, call.content)
            /\ fetched_files' = fetched_files \cup {call.filename}
            /\ new_manifest' =
                 [new_manifest EXCEPT !.files =
                     Put(@, call.filename, [original_url |-> call.original_url,
                                            hash |-> Sha256(call.content)])]
            /\ successful' = successful + 1
            /\ NextUrl
            /\ UNCHANGED <<skipped, failed, failed_pages, exit_code>>
       ELSE IF Caught(call)
       THEN /\ failed' = failed + 1
            /\ failed_pages' = Append(failed_pages, documentation_urls[idx])
            /\ NextUrl
            /\ UNCHANGED <<refs, written, fetched_files, new_manifest, successful, skipped,
                           exit_code>>
       \* an exception nothing catches ends the program
       ELSE /\ pc' = "done"
            /\ exit_code' = 1
            /\ UNCHANGED <<refs, written, fetched_files, new_manifest, successful, skipped,
                           failed, failed_pages, idx, attempt, call, call_trace, processed>>
    /\ UNCHANGED <<manifest_file, skill_md, before, args, manifest, discovery, validation,
                   http_used, removed>>

\* (faulty variant, for sensitivity) the custom files are not protected
protected_files_manifest_only == {MANIFEST_FILE}

\* cleanup_old_files: protected_files
protected_files == {MANIFEST_FILE} \cup CUSTOM_FILES

\* cleanup_old_files(current_files, manifest): the files it unlinks
cleanup_old_files(current_files, loaded, files) ==
    LET previous_files == DOMAIN loaded.files
        files_to_remove == previous_files \ current_files
    IN  {f \in files_to_remove : f \notin protected_files /\ f \in DOMAIN files}

Cleanup ==
    /\ pc = "cleanup"
    /\ removed' = cleanup_old_files(fetched_files, manifest, refs)
    /\ refs' = Without(refs, removed')
    /\ pc' = "save_manifest"
    /\ UNCHANGED <<manifest_file, skill_md, before, args, exit_code, manifest, loop_state,
                   discovery, attempt, call, validation, http_used, call_trace>>

\* fetch_docs: fetch_metadata, save_manifest and the return
SaveManifest ==
    /\ pc = "save_manifest"
    /\ manifest_file' =
         [exists |-> TRUE, files |-> new_manifest.files,
          fetch_metadata |-> [successful |-> successful, failed |-> failed,
                              failed_pages |-> failed_pages]]
    /\ pc' = "fetched"
    /\ UNCHANGED <<refs, skill_md, before, args, exit_code, manifest, loop_state, discovery,
                   attempt, call, validation, http_used, call_trace, removed>>

\* main after fetch_docs: validate_skill_md, the update of SKILL.md and the
\* return; open() raises when the update finds no SKILL.md
Report ==
    /\ pc = "fetched"
    /\ validation' = validate_skill_md(fetched_files, skill_md)
    /\ IF validation'.unreferenced # <<>> /\ args.update_skill
       THEN IF ~skill_md.exists
            THEN exit_code' = 1 /\ UNCHANGED skill_md
            ELSE /\ skill_md' = File(update_skill_md_uncategorized(
                                         validation'.unreferenced, skill_md.content))
                 /\ exit_code' = 0
       ELSE exit_code' = 0 /\ UNCHANGED skill_md
    /\ pc' = "done"
    /\ UNCHANGED <<refs, manifest_file, before, args, manifest, loop_state, discovery,
                   attempt, call, http_used, call_trace, removed>>

Next ==
    \/ \E a \in Arguments, e \in {NoValue, EnvLlmsUrl} : Main(a, e)
    \/ \E resp \in LlmsResponses, e \in {NoValue, EnvSitemapUrl} : TryLlms(resp, e)
    \/ \E site \in Sites : TrySitemap(site)
    \/ StartLoop
    \/ \E resp \in PageResponses : Attempt(resp)
    \/ HandleResult
    \/ Cleanup
    \/ SaveManifest
    \/ Report

Spec == Init /\ [][Next]_vars

-----------------------------------------------------------------------------
(* validate_skill_md on its own: every set of fetched names against every  *)
(* SKILL.md                                                                *)

ValidateNames ==
    {FileOverview, FileLegacy, FileCustom, MANIFEST_FILE, <<"hooks", ".md">>,
     <<"my", " ", "guide", ".md">>}

InitValidate ==
    /\ pc = "validate_skill_md"
    /\ refs = EmptyMap
    /\ manifest_file = NoManifest
    /\ skill_md \in InitialSkills
    /\ before = [refs |-> refs, manifest_file |-> manifest_file, skill_md |-> skill_md]
    /\ Program

ValidateSkill(fetched) ==
    /\ pc = "validate_skill_md"
    /\ fetched_files' = fetched
    /\ validation' = validate_skill_md(fetched, skill_md)
    /\ pc' = "validated"
    /\ UNCHANGED <<disk, before, args, exit_code, manifest, new_manifest, documentation_urls,
                   idx, successful, failed, failed_pages, source_urls, source_i, attempt,
                   call, http_used, disc_trace, call_trace, processed, skipped, written,
                   removed>>

NextValidate == \E fetched \in SUBSET ValidateNames : ValidateSkill(fetched)

SpecValidate == InitValidate /\ [][NextValidate]_vars

-----------------------------------------------------------------------------
(* Properties *)

\* the file name fetch_markdown_url gives the page of a URL
FileOf(url) == url_to_safe_filename(normalize_doc_url(url).original_url)

\* the URLs of the sources of one kind asked among the first n
Asked(source, n) == {disc_trace[i].url : i \in {j \in 1..n : disc_trace[j].source = source}}

\* C1: discover_doc_urls asks the llms.txt sources, then the sitemaps, then
\* takes the static list; no source is asked after one that gave an Agent SDK
\* URL; a sitemap is asked only after every llms.txt source gave nothing, the
\* static list is taken only after every sitemap gave nothing too; the list
\* returned is the one the last source gave and is never empty.
C1_DiscoveryOrder ==
    /\ \A i \in 1..Len(disc_trace) :
        LET e == disc_trace[i]
        IN  /\ i < Len(disc_trace) => e.found = <<>>
            /\ e.source = "llms" => \A j \in 1..(i - 1) : disc_trace[j].source = "llms"
            /\ e.source = "sitemap" => ToSet(LLMS_URLS) \subseteq Asked("llms", i - 1)
            /\ e.source = "fallback" =>
                 /\ ToSet(LLMS_URLS) \subseteq Asked("llms", i - 1)
                 /\ ToSet(SITEMAP_URLS) \subseteq Asked("sitemap", i - 1)
                 /\ i = Len(disc_trace)
    /\ pc = "discovered" =>
        /\ disc_trace # <<>>
        /\ documentation_urls = disc_trace[Len(disc_trace)].found
        /\ documentation_urls # <<>>
        /\ \A k \in 1..Len(documentation_urls) : is_agent_sdk_url(documentation_urls[k])
    /\ pc \in {"attempt", "called", "cleanup", "save_manifest", "fetched"} =>
        documentation_urls # <<>>

\* a sitemap gave the list, after every llms.txt source gave nothing
C1_Witness ==
    /\ pc = "discovered"
    /\ Len(disc_trace) > Len(LLMS_URLS)
    /\ disc_trace[Len(disc_trace)].source = "sitemap"
    /\ disc_trace[1].source = "llms"

\* C2: a call of fetch_markdown_url ends by returning a triple whose content
\* passes validate_markdown_content, or by raising.
C2_ReturnsOrRaises ==
    pc = "called" =>
        \/ call.kind = "raised"
        \/ /\ call.kind = "returned"
           /\ validate_markdown_content(call.content) = "ok"

\* C3: when fetch_docs has returned, the "files" of the saved manifest are the
\* names written in this run and the returned fetched_files, each of them is
\* in the references directory with the content last written to it, and its
\* recorded hash is the SHA-256 of that content.
C3_ManifestMatchesRun ==
    pc = "fetched" =>
        /\ manifest_file.exists
        /\ DOMAIN manifest_file.files = DOMAIN written
        /\ DOMAIN manifest_file.files = fetched_files
        /\ \A f \in DOMAIN manifest_file.files :
            /\ f \in DOMAIN refs
            /\ refs[f] = written[f]
            /\ manifest_file.files[f].hash = Sha256(written[f])

\* two URLs of the run gave the same file, which the previous manifest listed
C3_Witness ==
    /\ pc = "fetched"
    /\ successful = 2
    /\ fetched_files = {FileOverview}
    /\ FileOverview \in DOMAIN manifest.files
    /\ FileLegacy \in DOMAIN manifest.files
    /\ processed[1].url # processed[2].url

\* C4: the cleanup removes a file only if the previous manifest lists it, it
\* is not protected, and its page is no longer among the discovered URLs.
C4_RemovesOnlyDroppedPages ==
    \A f \in removed :
        /\ f \in DOMAIN manifest.files
        /\ f \notin {MANIFEST_FILE} \cup CUSTOM_FILES
        /\ f \notin {FileOf(u) : u \in ToSet(documentation_urls)}

\* C5: a run of fetch_docs neither writes nor removes a custom file, and no
\* custom file name is in fetched_files, in the manifest being built or in
\* the saved manifest.
C5_CustomFilesUntouched ==
    \A c \in CUSTOM_FILES :
        /\ c \notin DOMAIN written
        /\ c \notin removed
        /\ c \in DOMAIN refs <=> c \in DOMAIN before.refs
        /\ c \in DOMAIN refs => refs[c] = before.refs[c]
        /\ c \notin fetched_files
        /\ c \notin DOMAIN new_manifest.files
        /\ pc = "fetched" => c \notin DOMAIN manifest_file.files

\* a page mapped to the custom file and was skipped; the file exists and the
\* previous manifest lists it
C5_Witness ==
    /\ pc = "fetched"
    /\ skipped > 0
    /\ FileCustom \in DOMAIN manifest.files
    /\ FileCustom \in DOMAIN refs
    /\ removed # {}

\* C6: with --validate, main sends no HTTP request, leaves the references
\* directory, the manifest and SKILL.md as they were, and returns 0,
\* whatever --update-skill is.
C6_ValidateOnly ==
    args.validate =>
        /\ pc = "done"
        /\ ~http_used
        /\ refs = before.refs
        /\ manifest_file = before.manifest_file
        /\ skill_md = before.skill_md
        /\ exit_code = 0

\* --validate with --update-skill, on a directory with an unreferenced file
C6_Witness ==
    /\ pc = "done"
    /\ args.validate
    /\ args.update_skill
    /\ skill_md.exists
    /\ validation.unreferenced # <<>>

\* C7: when SKILL.md exists and main ran without --validate: with
\* --update-skill, validate_skill_md on the same fetched_files and the updated
\* SKILL.md reports no unreferenced file; every reference SKILL.md held is
\* still there; SKILL.md is unchanged when nothing was unreferenced or
\* --update-skill was not given.
C7_SkillSynchronized ==
    (pc = "done" /\ ~args.validate /\ before.skill_md.exists) =>
        /\ args.update_skill =>
             validate_skill_md(fetched_files, skill_md).unreferenced = <<>>
        /\ get_skill_md_references(before.skill_md) \subseteq get_skill_md_references(skill_md)
        /\ (validation.unreferenced = <<>> \/ ~args.update_skill) =>
             skill_md = before.skill_md

\* the results of the calls of the loop so far, by URL
Results(kinds) == {i \in 1..Len(processed) : processed[i].result \in kinds}

\* C8: the loop of fetch_docs takes the discovered URLs once each, in order; a
\* failed page does not end the run; successful + failed + skipped is the
\* number of URLs done, all of them when the loop has ended; failed_pages
\* are the URLs whose call did not return, in order.
C8_EveryUrlOnce ==
    /\ Len(processed) <= Len(documentation_urls)
    /\ \A i \in 1..Len(processed) : processed[i].url = documentation_urls[i]
    /\ pc \in {"attempt", "called"} => Len(processed) = idx - 1
    /\ successful + failed + skipped = Len(processed)
    /\ failed = Cardinality(Results({"raised", "none"}))
    /\ skipped = Cardinality({i \in Results({"returned"}) :
                                FileOf(processed[i].url) \in CUSTOM_FILES})
    /\ Len(failed_pages) = failed
    /\ \A i \in Results({"raised", "none"}) :
         failed_pages[Cardinality({j \in Results({"raised", "none"}) : j <= i})]
           = processed[i].url
    /\ pc \in {"cleanup", "save_manifest", "fetched"} \/ (pc = "done" /\ ~args.validate) =>
         Len(processed) = Len(documentation_urls)
    /\ pc = "fetched" =>
         /\ manifest_file.fetch_metadata.failed_pages = failed_pages
         /\ manifest_file.fetch_metadata.failed = failed
         /\ manifest_file.fetch_metadata.successful = successful

\* the first page failed for want of a return, the second was saved
C8_Witness ==
    /\ pc = "cleanup"
    /\ Len(processed) = 2
    /\ processed[1].result = "none"
    /\ processed[2].result = "returned"
    /\ successful = 1

\* C9: a call of fetch_markdown_url sends at most MAX_RETRIES requests; each
\* request but the last got a request exception or a 429; a body that fails
\* validation ends the call with the ValueError, without a sleep.
C9_BoundedRetries ==
    /\ Len(call_trace) <= MAX_RETRIES
    /\ \A i \in 1..Len(call_trace) :
        /\ i < Len(call_trace) =>
             call_trace[i].answer \in {"request_exception", "rate_limited"}
        /\ call_trace[i].answer = "invalid" =>
             /\ ~call_trace[i].slept
             /\ pc = "called"
             /\ call = [kind |-> "raised", error |-> "ValueError"]

\* two failed requests, then a body that fails validation
C9_Witness ==
    /\ pc = "called"
    /\ Len(call_trace) = MAX_RETRIES
    /\ call_trace[1].answer = "request_exception"
    /\ call_trace[2].answer = "rate_limited"
    /\ call_trace[MAX_RETRIES].answer = "invalid"

\* what validate_skill_md was applied to, outside the given names
Outside(names, excluded) == names \ excluded

\* C10 (as stated): orphaned and unreferenced are as defined, disjoint, free
\* of the manifest file, orphaned free of custom files, and both are empty
\* exactly when the referenced names and fetched_files agree outside the
\* manifest file and the custom files.
C10_AsStated ==
    pc = "validated" =>
        LET referenced == get_skill_md_references(skill_md)
            orphaned == ToSet(validation.orphaned)
            unreferenced == ToSet(validation.unreferenced)
            apart == {MANIFEST_FILE} \cup CUSTOM_FILES
        IN  /\ orphaned = Outside(referenced, fetched_files \cup apart)
            /\ unreferenced = Outside(fetched_files, referenced \cup {MANIFEST_FILE})
            /\ orphaned \cap unreferenced = {}
            /\ MANIFEST_FILE \notin orphaned \cup unreferenced
            /\ orphaned \cap CUSTOM_FILES = {}
            /\ (orphaned = {} /\ unreferenced = {}) <=>
                 Outside(referenced, apart) = Outside(fetched_files, apart)

\* C10 (amended): as stated, but both lists are empty exactly when the two
\* sets agree outside the manifest file and the custom files and SKILL.md
\* references every custom file that is in fetched_files.
C10_Amended ==
    pc = "validated" =>
        LET referenced == get_skill_md_references(skill_md)
            orphaned == ToSet(validation.orphaned)
            unreferenced == ToSet(validation.unreferenced)
            apart == {MANIFEST_FILE} \cup CUSTOM_FILES
        IN  /\ orphaned = Outside(referenced, fetched_files \cup apart)
            /\ unreferenced = Outside(fetched_files, referenced \cup {MANIFEST_FILE})
            /\ Len(validation.orphaned) = Cardinality(orphaned)
            /\ Len(validation.unreferenced) = Cardinality(unreferenced)
            /\ orphaned \cap unreferenced = {}
            /\ MANIFEST_FILE \notin orphaned \cup unreferenced
            /\ orphaned \cap CUSTOM_FILES = {}
            /\ (orphaned = {} /\ unreferenced = {}) <=>
                 /\ Outside(referenced, apart) = Outside(fetched_files, apart)
                 /\ fetched_files \cap CUSTOM_FILES \subseteq referenced

\* fetched_files holds the manifest file and a custom file that SKILL.md
\* references, and a name unknown to SKILL.md, which references another
C10_Witness ==
    /\ pc = "validated"
    /\ skill_md.exists
    /\ {MANIFEST_FILE, FileCustom} \subseteq fetched_files
    /\ FileCustom \in get_skill_md_references(skill_md)
    /\ validation.orphaned # <<>>
    /\ validation.unreferenced # <<>>

=============================================================================
